---- MODULE Spec2Model ----
(***************************************************************************)
(* Model of the blog list view (src/src/components/App.tsx) together with  *)
(* the render guards of CategoryFilter.tsx and PostList that decide which  *)
(* handlers a user can reach.                                              *)
(*                                                                         *)
(* Strings are sequences of one-character strings, so that the URL         *)
(* parameter (a comma-joined string) and the selection (an array of        *)
(* strings) are different values and join / split are real conversions.    *)
(*                                                                         *)
(* Every action is one React commit: the handler's state updates followed  *)
(* by the filter-and-paginate effect of App.tsx:63-66, whose dependencies  *)
(* every handler changes.  Every state is therefore a settled state.       *)
(***************************************************************************)
EXTENDS Integers, Sequences, FiniteSets, TLC

VARIABLES
    searchParams,        \* the `categories` query parameter: [has, value]
    allPosts,            \* useState<Post[]>            App.tsx:32
    displayedPosts,      \* useState<Post[]>            App.tsx:33
    categories,          \* useState<CategoryWithCount[]> App.tsx:34
    selectedCategories,  \* useState<string[]>          App.tsx:35
    loading,             \* useState<boolean>           App.tsx:36
    currentPage,         \* useState<number>            App.tsx:37
    app,                 \* "constructed" | "mounted" | "crashed"
    fetchState,          \* "idle" | "pending" | "fulfilled" | "failed"
    hist,                \* the last two events, each with the state it started from
    routeId,             \* useParams().id of /post/:id    PostDetail:99 (0: not on that route)
    detailPost,          \* useState<Post | null> `post`   PostDetail:101 (<<>> is null)
    detailLoading,       \* useState<boolean>              PostDetail:102
    detailFetches,       \* outstanding fetchPost calls: the id each one closed over
    latestFetch,         \* "none" | "outstanding" | "fulfilled" | "failed", of the
                         \* fetchPost started for the current routeId
    apiPosts             \* the collection the API serves to the detail view

appVars == <<searchParams, allPosts, displayedPosts, categories, selectedCategories,
             loading, currentPage, app, fetchState, hist>>

detailVars == <<routeId, detailPost, detailLoading, detailFetches, latestFetch, apiPosts>>

vars == <<searchParams, allPosts, displayedPosts, categories, selectedCategories,
          loading, currentPage, app, fetchState, hist,
          routeId, detailPost, detailLoading, detailFetches, latestFetch, apiPosts>>

-----------------------------------------------------------------------------
(* Bounds *)

MaxShortPosts == 2   \* longest collection built from every post shape
MaxPosts == 8        \* longest collection built from the plain post shapes
MaxPage == 3         \* cap on the page number (hasMore can stay true for ever)
MaxOutstanding == 2  \* most fetchPost calls of the detail view in flight at once

(* Program constant *)

POSTS_PER_PAGE == 6

-----------------------------------------------------------------------------
(* Strings *)

Comma == ","

Str1(c) == <<c>>

Min(a, b) == IF a < b THEN a ELSE b

\* Collation rank of a character under String.prototype.localeCompare:
\* punctuation first, then letters in alphabetical order regardless of case.
CharRank(c) ==
    CASE c = "," -> 0
      [] c = "a" -> 1
      [] c = "b" -> 2
      [] c = "c" -> 3
      [] c = "L" -> 4
      [] c = "T" -> 5
      [] OTHER   -> 6

RECURSIVE localeCompareFrom(_, _, _)
localeCompareFrom(s, t, i) ==
    IF i > Len(s) /\ i > Len(t) THEN 0
    ELSE IF i > Len(s) THEN -1
    ELSE IF i > Len(t) THEN 1
    ELSE IF CharRank(s[i]) < CharRank(t[i]) THEN -1
    ELSE IF CharRank(s[i]) > CharRank(t[i]) THEN 1
    ELSE localeCompareFrom(s, t, i + 1)

localeCompare(s, t) == localeCompareFrom(s, t, 1)

\* String.prototype.split(','): cut at every comma, keeping empty pieces.
RECURSIVE splitFrom(_, _, _, _)
splitFrom(s, i, cur, acc) ==
    IF i > Len(s) THEN Append(acc, cur)
    ELSE IF s[i] = Comma THEN splitFrom(s, i + 1, <<>>, Append(acc, cur))
    ELSE splitFrom(s, i + 1, Append(cur, s[i]), acc)

split(s) == splitFrom(s, 1, <<>>, <<>>)

\* Array.prototype.join(','): the elements with one comma between neighbours.
RECURSIVE joinFrom(_, _)
joinFrom(arr, i) ==
    IF i > Len(arr) THEN <<>>
    ELSE IF i = Len(arr) THEN arr[i]
    ELSE arr[i] \o <<Comma>> \o joinFrom(arr, i + 1)

join(arr) == joinFrom(arr, 1)

\* Array.prototype.includes
RECURSIVE includesFrom(_, _, _)
includesFrom(arr, x, i) ==
    IF i > Len(arr) THEN FALSE
    ELSE IF arr[i] = x THEN TRUE
    ELSE includesFrom(arr, x, i + 1)

includes(arr, x) == includesFrom(arr, x, 1)

-----------------------------------------------------------------------------
(* The data the mock API can return *)

Category(id, name) == [id |-> id, name |-> name]

\* The category lists a post can carry.
NoCats   == <<>>
TechA    == <<Category(Str1("a"), Str1("T"))>>
TechLife == <<Category(Str1("b"), Str1("T")), Category(Str1("c"), Str1("L"))>>
TechTwice == <<Category(Str1("a"), Str1("T")), Category(Str1("b"), Str1("T"))>>
LifeIdT  == <<Category(Str1("T"), Str1("L"))>>
TechSane == <<Category(Str1("T"), Str1("T"))>>

PostShapes == {NoCats, TechA, TechLife, TechTwice, LifeIdT, TechSane}

PlainShapes == {NoCats, TechA, TechSane}

\* A post: its id is its position in the payload, so ids are unique.
Post(i, cats) == [id |-> i, categories |-> cats]

\* A post object of a malformed payload: the `categories` property is missing.
BadPost(i) == [id |-> i]

HasCategories(post) == "categories" \in DOMAIN post

SeqsOver(S, lo, hi) == UNION {[1..n -> S] : n \in lo..hi}

Collection(shapes) == [i \in 1..Len(shapes) |-> Post(i, shapes[i])]

\* Payloads of a successful response: { posts: [...] }
Responses ==
    {Collection(s) : s \in SeqsOver(PostShapes, 0, MaxShortPosts)}
    \cup {Collection(s) : s \in SeqsOver(PlainShapes, POSTS_PER_PAGE + 1, MaxPosts)}

\* Payloads with one post that lacks `categories`, after well-formed posts.
BadResponses ==
    {Append(Collection(s), BadPost(Len(s) + 1)) :
        s \in SeqsOver({NoCats, TechA}, 0, MaxShortPosts - 1)}

\* The ways a response can fail before any state is written: fetch() rejects,
\* response.json() rejects, or the payload is `null` so `data.posts` throws.
EarlyFailures == {"network", "parse", "nullPayload"}

\* The `categories` query parameter the page can be opened with.
NoParam == [has |-> FALSE, value |-> <<>>]
Param(v) == [has |-> TRUE, value |-> v]

InitialParams ==
    {NoParam,
     Param(<<>>),
     Param(<<"T">>),
     Param(<<"L", ",", "T">>),
     Param(<<"T", ",", "T">>),
     Param(<<"a">>)}

-----------------------------------------------------------------------------
(* Pure parts of App.tsx *)

\* The Map of fetchPosts, as the sequence of its values in insertion order.
RECURSIVE mapIndexFrom(_, _, _)
mapIndexFrom(map, name, i) ==
    IF i > Len(map) THEN 0
    ELSE IF map[i].name = name THEN i
    ELSE mapIndexFrom(map, name, i + 1)

mapIndex(map, name) == mapIndexFrom(map, name, 1)

\* App.tsx:87-100, one category of one post
AddCategoryBroken(map, category) ==
    LET k == mapIndex(map, category.name) IN
    IF k > 0
    THEN IF includes(map[k].ids, category.id)
         THEN map
         ELSE [map EXCEPT ![k].count = @ + 1, ![k].ids = Append(@, category.id)]
    ELSE Append(map, [id |-> category.name, name |-> category.name,
                      ids |-> <<category.id>>, count |-> 1])

AddCategory(map, category) ==
    LET k == mapIndex(map, category.name) IN
    IF k > 0
    THEN [map EXCEPT ![k].count = @ + 1,
                     ![k].ids = IF includes(@, category.id) THEN @
                                ELSE Append(@, category.id)]
    ELSE Append(map, [id |-> category.name, name |-> category.name,
                      ids |-> <<category.id>>, count |-> 1])

\* App.tsx:85-101, post.categories.forEach
RECURSIVE AddPostCategories(_, _, _)
AddPostCategories(map, cats, j) ==
    IF j > Len(cats) THEN map
    ELSE AddPostCategories(AddCategory(map, cats[j]), cats, j + 1)

\* App.tsx:84-102, data.posts.forEach
RECURSIVE BuildCategoryMap(_, _, _)
BuildCategoryMap(map, posts, i) ==
    IF i > Len(posts) THEN map
    ELSE BuildCategoryMap(AddPostCategories(map, posts[i].categories, 1), posts, i + 1)

\* Array.prototype.sort with the comparator of App.tsx:106 (stable).
RECURSIVE InsertSorted(_, _, _)
InsertSorted(sorted, e, i) ==
    IF i > Len(sorted) THEN Append(sorted, e)
    ELSE IF localeCompare(e.name, sorted[i].name) < 0
         THEN SubSeq(sorted, 1, i - 1) \o <<e>> \o SubSeq(sorted, i, Len(sorted))
         ELSE InsertSorted(sorted, e, i + 1)

RECURSIVE SortFrom(_, _, _)
SortFrom(arr, i, sorted) ==
    IF i > Len(arr) THEN sorted
    ELSE SortFrom(arr, i + 1, InsertSorted(sorted, arr[i], 1))

UnsortedByName(arr) == arr

SortByName(arr) == SortFrom(arr, 1, <<>>)

\* App.tsx:83-106, uniqueCategories
AggregateCategories(posts) == SortByName(BuildCategoryMap(<<>>, posts, 1))

\* App.tsx:127-130, post.categories.some(c => selectedCategories.includes(c.name))
RECURSIVE SomeNameSelected(_, _, _)
SomeNameSelected(cats, selected, j) ==
    IF j > Len(cats) THEN FALSE
    ELSE IF includes(selected, cats[j].name) THEN TRUE
    ELSE SomeNameSelected(cats, selected, j + 1)

RECURSIVE EveryNameSelected(_, _, _)
EveryNameSelected(cats, selected, j) ==
    IF j > Len(cats) THEN TRUE
    ELSE IF ~includes(selected, cats[j].name) THEN FALSE
    ELSE EveryNameSelected(cats, selected, j + 1)

\* App.tsx:195-197, post.categories.some(c => selectedCategories.includes(c.id))
RECURSIVE SomeIdSelected(_, _, _)
SomeIdSelected(cats, selected, j) ==
    IF j > Len(cats) THEN FALSE
    ELSE IF includes(selected, cats[j].id) THEN TRUE
    ELSE SomeIdSelected(cats, selected, j + 1)

\* App.tsx:126-131, allPosts.filter(...)
RECURSIVE FilterByName(_, _, _)
FilterByName(posts, selected, i) ==
    IF i > Len(posts) THEN <<>>
    ELSE IF SomeNameSelected(posts[i].categories, selected, 1)
         THEN <<posts[i]>> \o FilterByName(posts, selected, i + 1)
         ELSE FilterByName(posts, selected, i + 1)

RECURSIVE FilterByEveryName(_, _, _)
FilterByEveryName(posts, selected, i) ==
    IF i > Len(posts) THEN <<>>
    ELSE IF EveryNameSelected(posts[i].categories, selected, 1)
         THEN <<posts[i]>> \o FilterByEveryName(posts, selected, i + 1)
         ELSE FilterByEveryName(posts, selected, i + 1)

\* App.tsx:194-198
RECURSIVE FilterById(_, _, _)
FilterById(posts, selected, i) ==
    IF i > Len(posts) THEN <<>>
    ELSE IF SomeIdSelected(posts[i].categories, selected, 1)
         THEN <<posts[i]>> \o FilterById(posts, selected, i + 1)
         ELSE FilterById(posts, selected, i + 1)

\* App.tsx:122-132, `filtered`
filteredPostsAnd(posts, selected) ==
    IF Len(selected) > 0 THEN FilterByEveryName(posts, selected, 1) ELSE posts

filteredPosts(posts, selected) ==
    IF Len(selected) > 0 THEN FilterByName(posts, selected, 1) ELSE posts

\* Array.prototype.slice(0, end)
sliceLastPageOnly(arr, end) ==
    SubSeq(arr, end - POSTS_PER_PAGE + 1, Min(end, Len(arr)))

slice(arr, end) == SubSeq(arr, 1, Min(end, Len(arr)))

\* App.tsx:121-139, the value handed to setDisplayedPosts
filterAndPaginatePosts(posts, selected, page) ==
    slice(filteredPosts(posts, selected), page * POSTS_PER_PAGE)

\* App.tsx:190-199
getFilteredPostsCount ==
    IF Len(selectedCategories) = 0 THEN Len(allPosts)
    ELSE Len(FilterById(allPosts, selectedCategories, 1))

\* App.tsx:201
hasMorePosts == Len(displayedPosts) < getFilteredPostsCount

-----------------------------------------------------------------------------
(* Rendering *)

RECURSIVE SomeBadPost(_, _)
SomeBadPost(posts, i) ==
    IF i > Len(posts) THEN FALSE
    ELSE IF ~HasCategories(posts[i]) THEN TRUE
    ELSE SomeBadPost(posts, i + 1)

\* The effect of App.tsx:63-66 throws when it filters a post without
\* `categories` (App.tsx:127), and so does getFilteredPostsCount (App.tsx:195).
FilterThrows(posts, selected) == Len(selected) > 0 /\ SomeBadPost(posts, 1)

\* What the effect leaves in displayedPosts.
EffectResult(posts, selected, page) ==
    IF FilterThrows(posts, selected) THEN displayedPosts
    ELSE filterAndPaginatePosts(posts, selected, page)

\* A render throws when the filter does or when PostCard maps the categories
\* of a displayed post that has none; React then unmounts the whole tree
\* (index.tsx:19-29 installs no error boundary).
RenderThrows(posts, selected, page) ==
    FilterThrows(posts, selected) \/ SomeBadPost(EffectResult(posts, selected, page), 1)

AppAfter(posts, selected, page) ==
    IF RenderThrows(posts, selected, page) THEN "crashed" ELSE "mounted"

\* The event log: the last two events, newest last.
Event(op, name) ==
    [op |-> op, name |-> name, selected |-> selectedCategories,
     params |-> searchParams, page |-> currentPage]

Logged(op, name) ==
    IF Len(hist) < 2 THEN Append(hist, Event(op, name))
    ELSE <<hist[2], Event(op, name)>>

-----------------------------------------------------------------------------
(* State machine *)

Init ==
    /\ searchParams \in InitialParams
    /\ allPosts = <<>>
    /\ displayedPosts = <<>>
    /\ categories = <<>>
    /\ selectedCategories = <<>>
    /\ loading = TRUE
    /\ currentPage = 1
    /\ app = "constructed"
    /\ fetchState = "idle"
    /\ hist = <<>>
    /\ routeId = 0
    /\ detailPost = <<>>
    /\ detailLoading = TRUE
    /\ detailFetches = <<>>
    /\ latestFetch = "none"
    /\ apiPosts = <<>>

\* App.tsx:43-49, the selection read from the URL on mount
SeededSelection(params) ==
    IF params.has /\ params.value # <<>> THEN split(params.value)
    ELSE selectedCategories

\* The mount effects: App.tsx:43-49 (seed), 55-57 (start the fetch), 63-66.
Mount ==
    /\ app = "constructed"
    /\ selectedCategories' = SeededSelection(searchParams)
    /\ loading' = TRUE
    /\ fetchState' = "pending"
    /\ displayedPosts' = EffectResult(allPosts, selectedCategories', currentPage)
    /\ app' = "mounted"
    /\ hist' = Logged("mount", <<>>)
    /\ UNCHANGED <<searchParams, allPosts, categories, currentPage>>
    /\ UNCHANGED detailVars

\* App.tsx:75-109, the response parses and every post is well formed
FetchFulfilled ==
    /\ app = "mounted"
    /\ fetchState = "pending"
    /\ \E data \in Responses :
        /\ allPosts' = data
        /\ categories' = AggregateCategories(data)
        /\ displayedPosts' = EffectResult(data, selectedCategories, currentPage)
    /\ loading' = FALSE
    /\ fetchState' = "fulfilled"
    /\ hist' = Logged("fetchFulfilled", <<>>)
    /\ UNCHANGED <<searchParams, selectedCategories, currentPage, app>>
    /\ UNCHANGED detailVars

\* App.tsx:75-76 and 110-113, a throw before setAllPosts
FetchRejected ==
    /\ app = "mounted"
    /\ fetchState = "pending"
    /\ \E kind \in EarlyFailures :
        hist' = Logged("fetchRejected", Str1(kind))
    /\ loading' = FALSE
    /\ fetchState' = "failed"
    /\ UNCHANGED <<searchParams, allPosts, displayedPosts, categories,
                   selectedCategories, currentPage, app>>
    /\ UNCHANGED detailVars

\* App.tsx:79-85 and 110-113: setAllPosts has run when `post.categories.forEach`
\* throws on a post without categories; setCategories is never reached.
FetchMalformed ==
    /\ app = "mounted"
    /\ fetchState = "pending"
    /\ \E data \in BadResponses :
        /\ allPosts' = data
        /\ displayedPosts' = EffectResult(data, selectedCategories, currentPage)
        /\ app' = AppAfter(data, selectedCategories, currentPage)
    /\ loading' = FALSE
    /\ fetchState' = "failed"
    /\ hist' = Logged("fetchMalformed", <<>>)
    /\ UNCHANGED <<searchParams, categories, selectedCategories, currentPage>>
    /\ UNCHANGED detailVars

\* App.tsx:149-155, the updater's newCategories
RECURSIVE without(_, _, _)
without(prev, categoryId, i) ==
    IF i > Len(prev) THEN <<>>
    ELSE IF prev[i] # categoryId THEN <<prev[i]>> \o without(prev, categoryId, i + 1)
    ELSE without(prev, categoryId, i + 1)

newCategoriesAppendOnly(prev, categoryId) == Append(prev, categoryId)

newCategories(prev, categoryId) ==
    IF includes(prev, categoryId) THEN without(prev, categoryId, 1)
    ELSE Append(prev, categoryId)

\* App.tsx:158-162, the argument of setSearchParams
paramsForAlwaysSet(selected) == Param(join(selected))

paramsFor(selected) ==
    IF Len(selected) > 0 THEN Param(join(selected)) ELSE NoParam

\* CategoryFilter.tsx:39-50: one checkbox per aggregated category, which
\* toggles that category's id
CategoryIds == {categories[i].id : i \in 1..Len(categories)}

\* App.tsx:177, the argument of setSearchParams in handleClearFilters
clearedParamsEmptyValue == Param(<<>>)

clearedParams == NoParam

\* App.tsx:184, the updater of handleLoadMore
nextPageSkipsOne(prev) == prev + 2

nextPage(prev) == prev + 1

handleCategoryToggleKeepsPage ==
    /\ app = "mounted"
    /\ \E categoryId \in CategoryIds :
        /\ selectedCategories' = newCategories(selectedCategories, categoryId)
        /\ hist' = Logged("toggle", categoryId)
    /\ searchParams' = paramsFor(selectedCategories')
    /\ currentPage' = currentPage
    /\ displayedPosts' = EffectResult(allPosts, selectedCategories', currentPage')
    /\ app' = AppAfter(allPosts, selectedCategories', currentPage')
    /\ UNCHANGED <<allPosts, categories, loading, fetchState>>
    /\ UNCHANGED detailVars

\* App.tsx:146-168
handleCategoryToggle ==
    /\ app = "mounted"
    /\ \E categoryId \in CategoryIds :
        /\ selectedCategories' = newCategories(selectedCategories, categoryId)
        /\ hist' = Logged("toggle", categoryId)
    /\ searchParams' = paramsFor(selectedCategories')
    /\ currentPage' = 1
    /\ displayedPosts' = EffectResult(allPosts, selectedCategories', currentPage')
    /\ app' = AppAfter(allPosts, selectedCategories', currentPage')
    /\ UNCHANGED <<allPosts, categories, loading, fetchState>>
    /\ UNCHANGED detailVars

\* App.tsx:174-178; the button exists while something is selected
\* (CategoryFilter.tsx:26-34)
handleClearFilters ==
    /\ app = "mounted"
    /\ Len(selectedCategories) > 0
    /\ selectedCategories' = <<>>
    /\ currentPage' = 1
    /\ searchParams' = clearedParams
    /\ displayedPosts' = EffectResult(allPosts, selectedCategories', currentPage')
    /\ app' = AppAfter(allPosts, selectedCategories', currentPage')
    /\ hist' = Logged("clear", <<>>)
    /\ UNCHANGED <<allPosts, categories, loading, fetchState>>
    /\ UNCHANGED detailVars

\* App.tsx:183-185; the button exists while posts are shown and hasMore
\* holds, and is disabled while loading (PostList, part_000:29-43)
handleLoadMore ==
    /\ app = "mounted"
    /\ Len(displayedPosts) > 0
    /\ hasMorePosts
    /\ ~loading
    /\ currentPage < MaxPage
    /\ currentPage' = nextPage(currentPage)
    /\ displayedPosts' = EffectResult(allPosts, selectedCategories, currentPage')
    /\ app' = AppAfter(allPosts, selectedCategories, currentPage')
    /\ hist' = Logged("loadMore", <<>>)
    /\ UNCHANGED <<searchParams, allPosts, categories, selectedCategories,
                   loading, fetchState>>
    /\ UNCHANGED detailVars

Next ==
    \/ Mount
    \/ FetchFulfilled
    \/ FetchRejected
    \/ FetchMalformed
    \/ handleCategoryToggle
    \/ handleClearFilters
    \/ handleLoadMore

Spec == Init /\ [][Next]_vars

TypeOK ==
    /\ searchParams.has \in BOOLEAN
    /\ loading \in BOOLEAN
    /\ currentPage \in 1..MaxPage
    /\ app \in {"constructed", "mounted", "crashed"}
    /\ fetchState \in {"idle", "pending", "fulfilled", "failed"}
    /\ Len(hist) <= 2

-----------------------------------------------------------------------------
(* The detail view, PostDetail (route /post/:id, index.tsx:24) *)

\* The ids a route can name: those of the served posts and one beyond them.
RouteIds == 1..(MaxShortPosts + 1)

\* The collections the API serves to the detail view
DetailResponses == {Collection(s) : s \in SeqsOver(PostShapes, 0, MaxShortPosts)}

\* PostDetail:115-116, data.posts.find(p => p.id === id) || null
RECURSIVE findPostFrom(_, _, _)
findPostFrom(posts, id, i) ==
    IF i > Len(posts) THEN <<>>
    ELSE IF posts[i].id = id THEN <<posts[i]>>
    ELSE findPostFrom(posts, id, i + 1)

findPost(posts, id) == findPostFrom(posts, id, 1)

\* PostDetail:141-167, which of the three returns renders
detailView ==
    IF detailLoading THEN "loading"
    ELSE IF detailPost = <<>> THEN "notFound"
    ELSE "detail"

RemoveAt(arr, k) == SubSeq(arr, 1, k - 1) \o SubSeq(arr, k + 1, Len(arr))

\* The fetchPost started for the current route id is the newest one, so it
\* is the last of the outstanding calls while it is outstanding.
IsLatest(k) == latestFetch = "outstanding" /\ k = Len(detailFetches)

DetailInit ==
    /\ searchParams = NoParam
    /\ allPosts = <<>>
    /\ displayedPosts = <<>>
    /\ categories = <<>>
    /\ selectedCategories = <<>>
    /\ loading = TRUE
    /\ currentPage = 1
    /\ app = "constructed"
    /\ fetchState = "idle"
    /\ hist = <<>>
    /\ routeId \in RouteIds
    /\ detailPost = <<>>
    /\ detailLoading = TRUE
    /\ detailFetches = <<>>
    /\ latestFetch = "none"
    /\ apiPosts \in DetailResponses

\* PostDetail:107-125, the effect on mount: setLoading(true) and the fetch
DetailMount ==
    /\ latestFetch = "none"
    /\ detailLoading' = TRUE
    /\ detailFetches' = Append(detailFetches, routeId)
    /\ latestFetch' = "outstanding"
    /\ UNCHANGED <<routeId, detailPost, apiPosts>>
    /\ UNCHANGED appVars

\* The route changes to another /post/:id while PostDetail stays mounted
\* (same Route element, index.tsx:24); the effect runs again because its
\* dependency `id` changed (PostDetail:125).  No earlier call is cancelled.
DetailRouteChange ==
    /\ latestFetch # "none"
    /\ Len(detailFetches) < MaxOutstanding
    /\ \E id \in RouteIds \ {routeId} :
        /\ routeId' = id
        /\ detailFetches' = Append(detailFetches, id)
    /\ detailLoading' = TRUE
    /\ latestFetch' = "outstanding"
    /\ UNCHANGED <<detailPost, apiPosts>>
    /\ UNCHANGED appVars

\* PostDetail:111-117, one outstanding call gets its response; `id` is the
\* id of the render that started the call.
DetailFetchFulfilled ==
    /\ \E k \in 1..Len(detailFetches) :
        /\ detailPost' = findPost(apiPosts, detailFetches[k])
        /\ detailFetches' = RemoveAt(detailFetches, k)
        /\ latestFetch' = IF IsLatest(k) THEN "fulfilled" ELSE latestFetch
    /\ detailLoading' = FALSE
    /\ UNCHANGED <<routeId, apiPosts>>
    /\ UNCHANGED appVars

\* PostDetail:118-121, fetch() or response.json() rejects, or the payload has
\* no `posts` array: only setLoading(false) runs.
DetailFetchRejected ==
    /\ \E k \in 1..Len(detailFetches) :
        /\ detailFetches' = RemoveAt(detailFetches, k)
        /\ latestFetch' = IF IsLatest(k) THEN "failed" ELSE latestFetch
    /\ detailLoading' = FALSE
    /\ UNCHANGED <<routeId, detailPost, apiPosts>>
    /\ UNCHANGED appVars

DetailNext ==
    \/ DetailMount
    \/ DetailRouteChange
    \/ DetailFetchFulfilled
    \/ DetailFetchRejected

SpecDetail == DetailInit /\ [][DetailNext]_vars

-----------------------------------------------------------------------------
(* Vocabulary of the properties, stated without the operators above *)

SetOf(arr) == {arr[i] : i \in 1..Len(arr)}

NamesOf(post) == {post.categories[j].name : j \in 1..Len(post.categories)}

\* The posts a selection of names asks for: all of them when nothing is
\* selected, otherwise those with at least one selected name.
Matching(posts, selected) ==
    {i \in 1..Len(posts) : selected = <<>> \/ NamesOf(posts[i]) \cap SetOf(selected) # {}}

\* The k-th smallest member of a set of indices
Nth(idx, k) == CHOOSE i \in idx : Cardinality({j \in idx : j <= i}) = k

\* sub lists exactly the posts at the indices idx, in their original order
IsSubsequenceAt(sub, posts, idx) ==
    /\ Len(sub) = Cardinality(idx)
    /\ \A k \in 1..Len(sub) : sub[k] = posts[Nth(idx, k)]

RECURSIVE SumOver(_, _)
SumOver(f, n) == IF n = 0 THEN 0 ELSE f[n] + SumOver(f, n - 1)

Last == hist[Len(hist)]

Happened(op) == Len(hist) > 0 /\ Last.op = op

\* The list view is up and its posts are the well-formed payload of a fetch.
Settled == app = "mounted" /\ ~SomeBadPost(allPosts, 1)

-----------------------------------------------------------------------------
(* C1: in every settled state hasMore is true exactly when fewer posts are   *)
(* visible than match the selected names; in particular it is false exactly *)
(* when the visible count equals the count of posts matching by name.       *)
C1_HasMoreIffVisibleBelowMatching ==
    Settled =>
        (hasMorePosts <=>
            Len(displayedPosts) < Cardinality(Matching(allPosts, selectedCategories)))

-----------------------------------------------------------------------------
(* C2: the filter result is the subsequence of the collection, in original  *)
(* order, of all posts when nothing is selected and otherwise of the posts  *)
(* with at least one category whose name is selected; a post without        *)
(* categories is kept only under the empty selection.                       *)
C2_FilterIsOrSubsequence ==
    Settled =>
        LET filtered == filteredPosts(allPosts, selectedCategories) IN
        /\ IsSubsequenceAt(filtered, allPosts, Matching(allPosts, selectedCategories))
        /\ selectedCategories = <<>> => filtered = allPosts
        /\ \A i \in 1..Len(allPosts) :
              allPosts[i].categories = <<>> =>
                  (allPosts[i] \in SetOf(filtered) <=> selectedCategories = <<>>)
        /\ displayedPosts = SubSeq(filtered, 1, Len(displayedPosts))

\* A post without categories is dropped and a post with two categories is
\* kept on the strength of one selected name.
C2_Witness ==
    /\ Settled
    /\ Happened("toggle")
    /\ selectedCategories = <<Str1("L")>>
    /\ Len(allPosts) = 2
    /\ allPosts[1].categories = NoCats
    /\ allPosts[2].categories = TechLife
    /\ displayedPosts = <<allPosts[2]>>

-----------------------------------------------------------------------------
(* C4: after a successful fetch the counts of the aggregated categories sum *)
(* to the number of (post, category) pairs of the collection; a post        *)
(* without categories adds nothing.                                         *)
PairCount(posts) == SumOver([i \in 1..Len(posts) |-> Len(posts[i].categories)], Len(posts))

CountSum(cats) == SumOver([k \in 1..Len(cats) |-> cats[k].count], Len(cats))

C4_CountsSumToPairs ==
    fetchState = "fulfilled" => CountSum(categories) = PairCount(allPosts)

\* Two posts repeat the same category (same id, same name) and one more
\* post has no categories.
C4_Witness ==
    /\ fetchState = "fulfilled"
    /\ Len(allPosts) = MaxPosts
    /\ \E i \in 1..Len(allPosts) : allPosts[i].categories = NoCats
    /\ Cardinality({i \in 1..Len(allPosts) : allPosts[i].categories = TechA}) >= 2
    /\ CountSum(categories) >= 2

-----------------------------------------------------------------------------
(* C5 *)
AllNames(posts) == UNION {NamesOf(posts[i]) : i \in 1..Len(posts)}

PostsNaming(posts, name) == {i \in 1..Len(posts) : name \in NamesOf(posts[i])}

PairsNaming(posts, name) ==
    UNION {{<<i, j>> : j \in {c \in 1..Len(posts[i].categories) :
                                  posts[i].categories[c].name = name}} :
           i \in 1..Len(posts)}

\* One entry per distinct name, its id its name, in ascending order of name
OneEntryPerName(cats, posts) ==
    /\ SetOf([k \in 1..Len(cats) |-> cats[k].name]) = AllNames(posts)
    /\ \A k \in 1..Len(cats) : cats[k].id = cats[k].name
    /\ \A k \in 1..(Len(cats) - 1) : localeCompare(cats[k].name, cats[k + 1].name) < 0

NoNameTwiceInAPost(posts) ==
    \A i \in 1..Len(posts) : Cardinality(NamesOf(posts[i])) = Len(posts[i].categories)

(* C5 as claimed: categories of one name collapse into one entry (one per   *)
(* distinct name, id equal to name, sorted by name) whose count is the      *)
(* number of posts referencing a category of that name under any id.        *)
C5_CountIsNumberOfPosts ==
    fetchState = "fulfilled" =>
        /\ OneEntryPerName(categories, allPosts)
        /\ \A k \in 1..Len(categories) :
              categories[k].count =
                  Cardinality(PostsNaming(allPosts, categories[k].name))

(* C5 as amended: categories of one name collapse into one entry (one per   *)
(* distinct name, id equal to name, sorted by name) whose count is the      *)
(* number of (post, category) pairs with that name, under any id; that is   *)
(* the number of posts referencing the name when no post lists a name twice.*)
C5_CountIsNumberOfPairs ==
    fetchState = "fulfilled" =>
        /\ OneEntryPerName(categories, allPosts)
        /\ \A k \in 1..Len(categories) :
              /\ categories[k].count =
                    Cardinality(PairsNaming(allPosts, categories[k].name))
              /\ NoNameTwiceInAPost(allPosts) =>
                    categories[k].count =
                        Cardinality(PostsNaming(allPosts, categories[k].name))

\* Two posts name T under the ids a and b, and L was met after T.
C5_Witness ==
    /\ fetchState = "fulfilled"
    /\ Len(allPosts) = 2
    /\ allPosts[1].categories = TechA
    /\ allPosts[2].categories = TechLife
    /\ Len(categories) = 2
    /\ categories[1].name = Str1("L") /\ categories[1].count = 1
    /\ categories[2].name = Str1("T") /\ categories[2].count = 2
    /\ categories[2].ids = <<Str1("a"), Str1("b")>>

-----------------------------------------------------------------------------
(* C3 *)
TwoTogglesOfOneName ==
    /\ Len(hist) = 2
    /\ hist[1].op = "toggle"
    /\ hist[2].op = "toggle"
    /\ hist[1].name = hist[2].name

\* v is the strings of arr written one after the other with a comma between
\* neighbours
IsCommaJoined(v, arr) ==
    LET start(i) == SumOver([j \in 1..Len(arr) |-> Len(arr[j]) + 1], i - 1) IN
    /\ Len(arr) > 0
    /\ Len(v) = start(Len(arr) + 1) - 1
    /\ \A i \in 1..Len(arr) :
          /\ SubSeq(v, start(i) + 1, start(i) + Len(arr[i])) = arr[i]
          /\ i > 1 => v[start(i)] = Comma

\* The parameter is absent for the empty selection and otherwise holds the
\* comma-joined selected names.
Mirrors(params, selected) ==
    IF selected = <<>> THEN ~params.has
    ELSE params.has /\ IsCommaJoined(params.value, selected)

(* C3 as claimed: toggling the same name twice in succession returns the    *)
(* selection set to its original value and the URL `categories` parameter   *)
(* to its original state.                                                   *)
C3_DoubleToggleRestoresSelectionAndUrl ==
    TwoTogglesOfOneName =>
        /\ SetOf(selectedCategories) = SetOf(hist[1].selected)
        /\ searchParams = hist[1].params

(* C3 as amended: toggling the same name twice in succession returns the    *)
(* selection to the same set of names, and the URL parameter then mirrors   *)
(* the resulting selection; selection and parameter are both exactly as     *)
(* before when the name was not selected at first and the parameter         *)
(* mirrored the selection.                                                  *)
C3_DoubleToggleRestoresSet ==
    TwoTogglesOfOneName =>
        /\ SetOf(selectedCategories) = SetOf(hist[1].selected)
        /\ Mirrors(searchParams, selectedCategories)
        /\ (/\ hist[1].name \notin SetOf(hist[1].selected)
            /\ Mirrors(hist[1].params, hist[1].selected))
           => /\ selectedCategories = hist[1].selected
              /\ searchParams = hist[1].params

\* The page was opened with a name repeated in the URL; the name is toggled
\* off and on again.
C3_Witness ==
    /\ TwoTogglesOfOneName
    /\ hist[1].selected = <<Str1("T"), Str1("T")>>
    /\ hist[1].name = Str1("T")
    /\ hist[2].selected = <<>>
    /\ selectedCategories = <<Str1("T")>>
    /\ searchParams = Param(Str1("T"))

-----------------------------------------------------------------------------
(* C6: after clear() the selection is empty, the page number is 1 and the   *)
(* URL `categories` parameter is absent, not present with an empty value.   *)
C6_ClearResetsAll ==
    Happened("clear") =>
        /\ selectedCategories = <<>>
        /\ currentPage = 1
        /\ ~searchParams.has

\* clear() pressed on a later page with names selected and in the URL
C6_Witness ==
    /\ Happened("clear")
    /\ Last.page >= 2
    /\ Len(Last.selected) >= 1
    /\ Last.params.has
    /\ selectedCategories = <<>>

-----------------------------------------------------------------------------
(* C7: every toggle and every clear leaves the URL parameter mirroring the  *)
(* selection (absent when empty, else the comma-joined selected names), and *)
(* a loadMore keeps it so.                                                  *)
C7_UrlMirrorsSelection ==
    [][/\ (Happened("toggle") \/ Happened("clear"))'
          => Mirrors(searchParams, selectedCategories)'
       /\ (Happened("loadMore")' /\ Mirrors(searchParams, selectedCategories))
          => Mirrors(searchParams, selectedCategories)']_vars

\* The last selected name is toggled off, after the page was opened with a
\* parameter.
C7_Witness ==
    /\ Happened("toggle")
    /\ Len(Last.selected) = 1
    /\ Last.params.has
    /\ selectedCategories = <<>>
    /\ ~searchParams.has

-----------------------------------------------------------------------------
(* C8: the page number starts at 1, is 1 after every toggle and every clear *)
(* and after every change of the selection, is never below 1, and only     *)
(* loadMore raises it.                                                      *)
C8_PageResetOnSelectionChange ==
    /\ currentPage = 1
    /\ [][/\ (Happened("toggle") \/ Happened("clear"))' => currentPage' = 1
          /\ selectedCategories' # selectedCategories => currentPage' = 1
          /\ currentPage' >= 1
          /\ currentPage' > currentPage => Happened("loadMore")']_vars

\* A toggle on the third page
C8_Witness ==
    /\ Happened("toggle")
    /\ Last.page = 3
    /\ currentPage = 1

-----------------------------------------------------------------------------
(* C9: loadMore() raises the page number by exactly 1 and leaves the        *)
(* selection, the URL parameter, the posts and the aggregated categories    *)
(* unchanged.                                                               *)
C9_LoadMoreFrame ==
    [][Happened("loadMore")' =>
          /\ currentPage' = currentPage + 1
          /\ UNCHANGED <<selectedCategories, searchParams, allPosts, categories>>]_vars

\* loadMore() under a selection
C9_Witness ==
    /\ Happened("loadMore")
    /\ currentPage = Last.page + 1
    /\ Len(selectedCategories) >= 1
    /\ searchParams.has
    /\ Len(displayedPosts) > POSTS_PER_PAGE

-----------------------------------------------------------------------------
(* C10: when the fetch or the processing of its response fails, loading     *)
(* ends cleared and the posts and the aggregated categories both stay       *)
(* empty; the posts are never set without the categories, and loading is    *)
(* cleared on every outcome.                                                *)
C10_FetchAllOrNothing ==
    /\ fetchState = "failed" => ~loading /\ allPosts = <<>> /\ categories = <<>>
    /\ fetchState = "fulfilled" => ~loading

-----------------------------------------------------------------------------
(* C11: once the fetch for the current route id has completed with a        *)
(* collection, the detail view shows not-found when the id matches no post  *)
(* of the collection and that post's detail when it matches one; the view   *)
(* is loading only while a fetch is outstanding (or yet to be started).     *)
PostsWithId(id) == {i \in 1..Len(apiPosts) : apiPosts[i].id = id}

C11_DetailMatchesRouteId ==
    /\ latestFetch = "fulfilled" =>
          IF PostsWithId(routeId) = {} THEN detailView = "notFound"
          ELSE /\ detailView = "detail"
               /\ detailPost[1].id = routeId
               /\ detailPost[1] \in SetOf(apiPosts)
    /\ detailView = "loading" => (latestFetch = "none" \/ Len(detailFetches) > 0)

-----------------------------------------------------------------------------
(* C12: in every settled state, whatever the order of seeding, fetch        *)
(* completion, toggle, clear and loadMore, the visible list is the first    *)
(* min(6 * page, |filtered|) posts of the filtered collection; the page-n   *)
(* list is a prefix of the page-(n+1) list; and the recomputation changes   *)
(* none of the posts, the selection and the page number.                    *)
IsPrefix(a, b) == Len(a) <= Len(b) /\ a = SubSeq(b, 1, Len(a))

\* shown is the first min(POSTS_PER_PAGE * page, |matching|) matching posts
IsVisibleWindow(shown, posts, selected, page) ==
    LET idx == Matching(posts, selected)
        n == Min(POSTS_PER_PAGE * page, Cardinality(idx))
    IN /\ Len(shown) = n
       /\ \A k \in 1..n : shown[k] = posts[Nth(idx, k)]

C12_VisibleIsDerived ==
    /\ [](Settled =>
            /\ IsVisibleWindow(displayedPosts, allPosts, selectedCategories, currentPage)
            /\ \A n \in 1..MaxPage :
                  IsPrefix(filterAndPaginatePosts(allPosts, selectedCategories, n),
                           filterAndPaginatePosts(allPosts, selectedCategories, n + 1)))
    /\ [][/\ (Happened("loadMore")' /\ Settled') => IsPrefix(displayedPosts, displayedPosts')
          /\ Happened("mount")' => UNCHANGED <<allPosts, currentPage>>
          /\ Happened("fetchFulfilled")' => UNCHANGED <<selectedCategories, currentPage>>
          /\ (Happened("toggle") \/ Happened("clear"))' => UNCHANGED allPosts
          /\ Happened("loadMore")' => UNCHANGED <<allPosts, selectedCategories>>]_vars

\* The selection came from the URL before the posts arrived; the filter drops
\* a post, more posts match than one page holds, and a second page is shown.
C12_Witness ==
    /\ Settled
    /\ Happened("loadMore")
    /\ currentPage = 2
    /\ searchParams = Param(<<"T">>)
    /\ selectedCategories = <<Str1("T")>>
    /\ Len(allPosts) = 8
    /\ Cardinality(Matching(allPosts, selectedCategories)) = 7
    /\ Len(displayedPosts) = 7
    /\ Last.page = 1

====
